---- MODULE Spec2Model ----
(***************************************************************************)
(* A model of ddpie/log-analyzer: the MCP client manager (mcp_manager.py), *)
(* the start-up sequence of main (main.py) and the output formatter        *)
(* (output_formatter.py).                                                  *)
(***************************************************************************)
EXTENDS Integers, Sequences, FiniteSets, TLC

(***************************************************************************)
(* Bounds of the model.                                                    *)
(***************************************************************************)
\* MCPClient objects ever constructed by one MCPManager instance
MaxConns == 3
\* length of the server_configs list handed to initialize_clients
MaxSpecs == 3
\* entries of one server_configs list for which a client is constructed
MaxKnown == 2
\* tools one provider returns from list_tools_sync
MaxTools == 1

\* the None that _create_client returns: no client object (objects are 1, 2, ...)
None == 0

(***************************************************************************)
(* Part 1: MCPManager (src/project/mcp_manager.py).                        *)
(*                                                                         *)
(* An MCPClient object is a number 1..MaxConns, allotted in construction   *)
(* order.  live[c] is the liveness of the session object c:                *)
(* "unopened" | "open" | "closed"; an object not yet constructed is        *)
(* "unopened".  The outcome of every call into the MCP library (__enter__, *)
(* list_tools_sync, __exit__) is an input of the handler that makes it.    *)
(* calls is the sequence of library calls the last handler made, each with *)
(* the liveness of the object at the moment of the call.  exitFailed holds  *)
(* the handlers in which an __exit__ has raised so far.                    *)
(***************************************************************************)
VARIABLES clients, tools, active, live, nextId,
          lastOp, args, ret, raised, calls, exitFailed

mcpVars == <<clients, tools, active, live, nextId,
             lastOp, args, ret, raised, calls, exitFailed>>

Conns == 1..MaxConns

RECURSIVE SeqsUpTo(_, _)
\* all sequences over S of length at most n
SeqsUpTo(S, n) ==
    IF n = 0 THEN {<<>>}
    ELSE LET shorter == SeqsUpTo(S, n - 1)
         IN shorter \cup {Append(s, x) : s \in {t \in shorter : Len(t) = n - 1}, x \in S}

Range(s) == {s[i] : i \in 1..Len(s)}
InSeq(x, s) == \E i \in 1..Len(s) : s[i] = x
NoDup(s) == \A i, j \in 1..Len(s) : s[i] = s[j] => i = j

\* a server config as get_enabled_servers builds it: its name (the key of the
\* mcpServers object, unique in the list: here the entry's place in the list)
\* and whether MCPClient construction succeeds for it
ConfigLists ==
    UNION {[1..n -> [name : 1..n, ok : BOOLEAN]] : n \in 0..MaxSpecs}
NamedByPlace(l) == \A i \in 1..Len(l) : l[i].name = i

\* (a variant that hands out a client even when construction failed)
CreateClientAllOk(config, id) == id
\* MCPManager._create_client: a failure of construction is caught inside and
\* None is returned; otherwise the new client object
CreateClient(config, id) == IF config.ok THEN id ELSE None

RECURSIVE InitLoop(_, _, _, _)
\* the loop of initialize_clients from position i: built is the list of
\* <<client, name of its config>> appended so far, id the next free object
InitLoop(configs, i, built, id) ==
    IF i > Len(configs) THEN built
    ELSE LET client == CreateClient(configs[i], id)
         IN IF client # None
            THEN InitLoop(configs, i + 1, Append(built, <<client, configs[i].name>>), id + 1)
            ELSE InitLoop(configs, i + 1, built, id)

NoArgs == [configs |-> <<>>, madeOf |-> <<>>]

\* MCPManager.__init__
McpInit ==
    /\ clients = <<>>
    /\ tools = <<>>
    /\ active = <<>>
    /\ live = [c \in Conns |-> "unopened"]
    /\ nextId = 1
    /\ lastOp = "init"
    /\ args = NoArgs
    /\ ret = <<>>
    /\ raised = FALSE
    /\ calls = <<>>
    /\ exitFailed = {}

\* MCPManager.initialize_clients(server_configs); args records the call's
\* argument and, for each client of the returned list, the config it was made of
InitializeClients ==
    \E configs \in {l \in ConfigLists : NamedByPlace(l)} :
        /\ LET built == InitLoop(configs, 1, <<>>, nextId)
               made == [k \in 1..Len(built) |-> built[k][1]]
           IN /\ nextId + Len(built) - 1 <= MaxConns
              /\ Len(built) <= MaxKnown
              /\ clients' = made
              /\ ret' = made
              /\ nextId' = nextId + Len(built)
              /\ args' = [configs |-> configs,
                          madeOf |-> [k \in 1..Len(built) |-> built[k][2]]]
        /\ lastOp' = "initialize_clients"
        /\ raised' = FALSE
        /\ calls' = <<>>
        /\ UNCHANGED <<tools, active, live, exitFailed>>

\* the outcome of the library calls made on one client during one handler:
\* open/close: does __enter__/__exit__ return (TRUE) or raise (FALSE);
\* list: -1 when list_tools_sync raises, else the number of tools it returns
Outcomes == [open : BOOLEAN, list : -1..MaxTools, close : BOOLEAN]
\* the outcomes that differ for get_all_tools (no close; no list after a failed
\* open), for health_check (nothing after a failed open) and for cleanup
ToolsOutcomes == {o \in Outcomes : o.close /\ (~o.open => o.list = -1)}
HealthOutcomes == {o \in Outcomes : o.list \in {-1, 0} /\ (~o.open => (o.list = -1 /\ o.close))}
CleanupOutcomes == {o \in Outcomes : o.open /\ o.list = -1}

\* the handlers in which an __exit__ has raised, after handler op made calls cs
ExitFailures(op, cs, before) ==
    IF \E k \in 1..Len(cs) : cs[k].op = "close" /\ ~cs[k].ok
    THEN before \cup {op} ELSE before

Call(op, c, state, ok, n) == [op |-> op, conn |-> c, state |-> state, ok |-> ok, n |-> n]

\* the tools provider c returns when it returns n of them
ToolsOf(c, n) == [k \in 1..n |-> <<c, k>>]

\* (a variant that opens every client, active or not)
GetToolsStepNoActiveTest(st, c, o) ==
    LET opened == [st EXCEPT
                     !.calls = Append(@, Call("open", c, st.live[c], o.open, 0)),
                     !.live = IF o.open THEN [@ EXCEPT ![c] = "open"] ELSE @,
                     !.active = IF o.open THEN Append(@, c) ELSE @]
        listOk == opened.live[c] = "open" /\ o.list >= 0
        got == IF listOk THEN o.list ELSE 0
        listed == [opened EXCEPT
                     !.calls = Append(@, Call("list", c, opened.live[c], listOk, got)),
                     !.all = IF listOk THEN @ \o ToolsOf(c, got) ELSE @]
    IN IF ~o.open THEN opened ELSE listed

\* (a variant that puts a client's tools in front of the aggregate)
GetToolsStepPrepend(st, c, o) ==
    LET needOpen == ~InSeq(c, st.active)
        opened == IF needOpen
                  THEN [st EXCEPT
                          !.calls = Append(@, Call("open", c, st.live[c], o.open, 0)),
                          !.live = IF o.open THEN [@ EXCEPT ![c] = "open"] ELSE @,
                          !.active = IF o.open THEN Append(@, c) ELSE @]
                  ELSE st
        listOk == opened.live[c] = "open" /\ o.list >= 0
        got == IF listOk THEN o.list ELSE 0
        listed == [opened EXCEPT
                     !.calls = Append(@, Call("list", c, opened.live[c], listOk, got)),
                     !.all = IF listOk THEN ToolsOf(c, got) \o @ ELSE @]
    IN IF needOpen /\ ~o.open THEN opened ELSE listed

\* one iteration of the loop of get_all_tools (lines 87-101) on client c
GetToolsStep(st, c, o) ==
    LET needOpen == ~InSeq(c, st.active)
        opened == IF needOpen
                  THEN [st EXCEPT
                          !.calls = Append(@, Call("open", c, st.live[c], o.open, 0)),
                          !.live = IF o.open THEN [@ EXCEPT ![c] = "open"] ELSE @,
                          !.active = IF o.open THEN Append(@, c) ELSE @]
                  ELSE st
        \* list_tools_sync raises on a session that is not running
        listOk == opened.live[c] = "open" /\ o.list >= 0
        got == IF listOk THEN o.list ELSE 0
        listed == [opened EXCEPT
                     !.calls = Append(@, Call("list", c, opened.live[c], listOk, got)),
                     !.all = IF listOk THEN @ \o ToolsOf(c, got) ELSE @]
    IN IF needOpen /\ ~o.open THEN opened ELSE listed

RECURSIVE GetToolsLoop(_, _, _, _)
GetToolsLoop(cs, i, st, outs) ==
    IF i > Len(cs) THEN st
    ELSE GetToolsLoop(cs, i + 1, GetToolsStep(st, cs[i], outs[i]), outs)

\* MCPManager.get_all_tools()
GetAllTools ==
    \E outs \in [1..Len(clients) -> ToolsOutcomes] :
        /\ LET st == GetToolsLoop(clients, 1,
                        [active |-> active, live |-> live, calls |-> <<>>, all |-> <<>>],
                        outs)
           IN /\ active' = st.active
              /\ live' = st.live
              /\ calls' = st.calls
              /\ tools' = st.all
              /\ ret' = st.all
        /\ lastOp' = "get_all_tools"
        /\ args' = NoArgs
        /\ raised' = FALSE
        /\ UNCHANGED <<clients, nextId, exitFailed>>

\* (a variant that probes without the with block: nothing releases the open)
HealthStepNoRelease(st, c, i, o) ==
    LET opened == [st EXCEPT
                     !.calls = Append(@, Call("open", c, st.live[c], o.open, 0)),
                     !.live = IF o.open THEN [@ EXCEPT ![c] = "open"] ELSE @]
        listOk == opened.live[c] = "open" /\ o.list >= 0
        listed == [opened EXCEPT
                     !.calls = Append(@, Call("list", c, opened.live[c], listOk,
                                              IF listOk THEN o.list ELSE 0)),
                     !.status = Append(@, listOk)]
    IN IF ~o.open THEN [opened EXCEPT !.status = Append(@, FALSE)] ELSE listed

\* one iteration of the loop of health_check (lines 116-125) on client c at
\* index i: "with client" opens, the body lists, leaving the block closes
HealthStep(st, c, i, o) ==
    LET opened == [st EXCEPT
                     !.calls = Append(@, Call("open", c, st.live[c], o.open, 0)),
                     !.live = IF o.open THEN [@ EXCEPT ![c] = "open"] ELSE @]
        listOk == opened.live[c] = "open" /\ o.list >= 0
        listed == [opened EXCEPT
                     !.calls = Append(@, Call("list", c, opened.live[c], listOk,
                                              IF listOk THEN o.list ELSE 0))]
        closed == [listed EXCEPT
                     !.calls = Append(@, Call("close", c, listed.live[c], o.close, 0)),
                     !.live = IF o.close THEN [@ EXCEPT ![c] = "closed"] ELSE @,
                     !.status = Append(@, listOk /\ o.close)]
    IN IF ~o.open THEN [opened EXCEPT !.status = Append(@, FALSE)] ELSE closed

RECURSIVE HealthLoop(_, _, _, _)
HealthLoop(cs, i, st, outs) ==
    IF i > Len(cs) THEN st
    ELSE HealthLoop(cs, i + 1, HealthStep(st, cs[i], i, outs[i]), outs)

\* MCPManager.health_check()
HealthCheck ==
    \E outs \in [1..Len(clients) -> HealthOutcomes] :
        /\ LET st == HealthLoop(clients, 1,
                        [live |-> live, calls |-> <<>>, status |-> <<>>], outs)
           IN /\ live' = st.live
              /\ calls' = st.calls
              /\ ret' = st.status
              /\ exitFailed' = ExitFailures("health_check", st.calls, exitFailed)
        /\ lastOp' = "health_check"
        /\ args' = NoArgs
        /\ raised' = FALSE
        /\ UNCHANGED <<clients, tools, active, nextId>>

\* (a variant in which a failing __exit__ is not caught)
CleanupStepAbort(st, c, o) ==
    IF st.raised THEN st
    ELSE [st EXCEPT
            !.calls = Append(@, Call("close", c, st.live[c], o.close, 0)),
            !.live = IF o.close THEN [@ EXCEPT ![c] = "closed"] ELSE @,
            !.raised = ~o.close]

\* one iteration of the loop of cleanup (lines 132-136): __exit__ on an active
\* client, a failure of it logged and swallowed
CleanupStep(st, c, o) ==
    [st EXCEPT
       !.calls = Append(@, Call("close", c, st.live[c], o.close, 0)),
       !.live = IF o.close THEN [@ EXCEPT ![c] = "closed"] ELSE @]

RECURSIVE CleanupLoop(_, _, _, _)
CleanupLoop(cs, i, st, outs) ==
    IF i > Len(cs) THEN st
    ELSE CleanupLoop(cs, i + 1, CleanupStep(st, cs[i], outs[i]), outs)

\* (a variant that clears nothing)
ClearedKeepKnown(cs) == cs
\* the three clear() calls that end cleanup (lines 138-140)
Cleared(cs) == <<>>

\* MCPManager.cleanup()
Cleanup ==
    \E outs \in [1..Len(active) -> CleanupOutcomes] :
        /\ LET st == CleanupLoop(active, 1,
                        [live |-> live, calls |-> <<>>, raised |-> FALSE], outs)
           IN /\ live' = st.live
              /\ calls' = st.calls
              /\ raised' = st.raised
              /\ exitFailed' = ExitFailures("cleanup", st.calls, exitFailed)
              /\ active' = IF st.raised THEN active ELSE Cleared(active)
              /\ clients' = IF st.raised THEN clients ELSE Cleared(clients)
              /\ tools' = IF st.raised THEN tools ELSE Cleared(tools)
        /\ lastOp' = "cleanup"
        /\ args' = NoArgs
        /\ ret' = <<>>
        /\ UNCHANGED nextId

McpNext ==
    \/ InitializeClients
    \/ GetAllTools
    \/ HealthCheck
    \/ Cleanup

(***************************************************************************)
(* Part 2: main (src/project/main.py).                                     *)
(*                                                                         *)
(* pc is the place of main: "config" (lines 56-71), "init" (74-87),        *)
(* "tools" (90-101), "agent" (104-112), "loop" (115-116), "finally"        *)
(* (127-133, before the call of cleanup), "returning" (the finally block   *)
(* done, the return value on its way to sys.exit) and "done" (the process  *)
(* has exited).  rc is the pending return value, exitCode the exit code of *)
(* the process (-1: none yet).                                             *)
(***************************************************************************)
VARIABLES pc, rc, exitCode, created, failure, signalled, reachedLoop, cleanedUp

mainVars == <<pc, rc, exitCode, created, failure, signalled, reachedLoop, cleanedUp>>

NoCode == -1
StartupFailures == {"config_missing", "config_invalid", "no_clients", "no_tools", "agent"}

MainInit ==
    /\ pc = "config"
    /\ rc = NoCode
    /\ exitCode = NoCode
    /\ created = FALSE
    /\ failure = "none"
    /\ signalled = FALSE
    /\ reachedLoop = FALSE
    /\ cleanedUp = FALSE

\* a return statement inside the try block: the finally block runs next
ReturnFromTry(code) ==
    /\ pc' = "finally"
    /\ rc' = code

\* lines 56-71: ConfigManager(), load_mcp_config, get_enabled_servers.
\* failure records what happened to the run, whatever main does about it.
MainLoadConfig ==
    /\ pc = "config"
    /\ \E outcome \in {"ok", "config_missing", "config_invalid", "unexpected"} :
          /\ failure' = IF outcome = "ok" THEN failure ELSE outcome
          /\ CASE outcome = "ok" -> pc' = "init" /\ UNCHANGED rc
               \* FileNotFoundError, line 64
               [] outcome = "config_missing" -> ReturnFromTry(1)
               \* any other Exception of the loading, line 69
               [] outcome = "config_invalid" -> ReturnFromTry(1)
               \* an exception outside the inner try (line 57), caught at line 122
               [] outcome = "unexpected" -> ReturnFromTry(1)
    /\ UNCHANGED <<exitCode, created, signalled, reachedLoop, cleanedUp>>
    /\ UNCHANGED mcpVars

\* lines 74-87: MCPManager(), initialize_clients(enabled_servers)
MainInitClients ==
    /\ pc = "init"
    /\ created' = TRUE
    /\ InitializeClients
    /\ failure' = IF ret' = <<>> THEN "no_clients" ELSE failure
    /\ IF ret' = <<>>
       THEN ReturnFromTry(1)
       ELSE pc' = "tools" /\ UNCHANGED rc
    /\ UNCHANGED <<exitCode, signalled, reachedLoop, cleanedUp>>

\* (a variant without the test of line 93)
MainGetToolsNoCheck ==
    /\ pc = "tools"
    /\ GetAllTools
    /\ failure' = IF ret' = <<>> THEN "no_tools" ELSE failure
    /\ pc' = "agent"
    /\ UNCHANGED <<rc, exitCode, created, signalled, reachedLoop, cleanedUp>>

\* lines 90-101: get_all_tools()
MainGetTools ==
    /\ pc = "tools"
    /\ GetAllTools
    /\ failure' = IF ret' = <<>> THEN "no_tools" ELSE failure
    /\ IF ret' = <<>>
       THEN ReturnFromTry(1)
       ELSE pc' = "agent" /\ UNCHANGED rc
    /\ UNCHANGED <<exitCode, created, signalled, reachedLoop, cleanedUp>>

\* lines 104-112: LogAnalyzerAgent(), create_agent(tools)
MainCreateAgent ==
    /\ pc = "agent"
    /\ \E ok \in BOOLEAN :
          /\ failure' = IF ok THEN failure ELSE "agent"
          /\ IF ok THEN pc' = "loop" /\ UNCHANGED rc
             ELSE ReturnFromTry(1)
    /\ UNCHANGED <<exitCode, created, signalled, reachedLoop, cleanedUp>>
    /\ UNCHANGED mcpVars

\* lines 115-125: start_interactive_mode returns (the try block falls through
\* to the finally block and line 135), or raises an Exception (line 122) or a
\* KeyboardInterrupt (line 118)
MainLoop ==
    /\ pc = "loop"
    /\ reachedLoop' = TRUE
    /\ \E outcome \in {"normal", "loop_error", "keyboard_interrupt"} :
          /\ failure' = IF outcome = "normal" THEN failure ELSE outcome
          /\ CASE outcome = "normal" -> ReturnFromTry(0)
               [] outcome = "loop_error" -> ReturnFromTry(1)
               [] outcome = "keyboard_interrupt" -> ReturnFromTry(0)
    /\ UNCHANGED <<exitCode, created, signalled, cleanedUp>>
    /\ UNCHANGED mcpVars

\* lines 127-133: the finally block; an Exception out of cleanup is caught
MainFinally ==
    /\ pc = "finally"
    /\ IF created
       THEN Cleanup /\ cleanedUp' = TRUE
       ELSE UNCHANGED mcpVars /\ UNCHANGED cleanedUp
    /\ pc' = "returning"
    /\ UNCHANGED <<rc, exitCode, created, failure, signalled, reachedLoop>>

\* line 139: sys.exit(main()), or the SystemExit of signal_handler leaving main
MainExit ==
    /\ pc = "returning"
    /\ pc' = "done"
    /\ exitCode' = rc
    /\ UNCHANGED <<rc, created, failure, signalled, reachedLoop, cleanedUp>>
    /\ UNCHANGED mcpVars

\* lines 33-36: SIGINT or SIGTERM arrives between two steps of main and
\* signal_handler raises SystemExit(0) there.  No except clause of main catches
\* it (they name KeyboardInterrupt and Exception).  Raised in the try block it
\* runs the finally block; raised in the finally block before the call of
\* cleanup, or after the block, it leaves main at once.
SignalHandler ==
    /\ pc # "done"
    /\ signalled' = TRUE
    /\ rc' = 0
    /\ pc' = IF pc \in {"finally", "returning"} THEN "returning" ELSE "finally"
    /\ UNCHANGED <<exitCode, created, failure, reachedLoop, cleanedUp>>
    /\ UNCHANGED mcpVars

MainNext ==
    \/ MainLoadConfig
    \/ MainInitClients
    \/ MainGetTools
    \/ MainCreateAgent
    \/ MainLoop
    \/ MainFinally
    \/ MainExit
    \/ SignalHandler

(***************************************************************************)
(* Part 3: OutputFormatter (src/project/output_formatter.py).              *)
(*                                                                         *)
(* A text is a sequence of characters, each a one-character string.  Three *)
(* symbols stand for runs of characters that no pattern of the formatter   *)
(* tells apart from any other run of non-blank, non-ASCII characters:      *)
(* KW one of the section_indicators (lines 42-45), NORESULT and EMPTYRESULT*)
(* the two fixed sentences of format_result (lines 58 and 73), NOTICE the  *)
(* sentence before the original text at line 77.  BULLET is the bullet     *)
(* U+2022, FULLCOLON the full-width colon U+FF1A, DQUOTE the double quote, SQUOTE  *)
(* the single quote and TICK the backquote.                                *)
(***************************************************************************)
KW == "KW"
NORESULT == "NORESULT"
EMPTYRESULT == "EMPTYRESULT"
NOTICE == "NOTICE"
NL == "\n"
BS == "\\"
FULLCOLON == "FULLCOLON"
BULLET == "BULLET"
DQUOTE == "DQUOTE"
SQUOTE == "SQUOTE"
TICK == "TICK"

Digit == {"0", "1", "2", "3", "4", "5", "6", "7", "8", "9"}
Alpha == {"a", "b", "c", "d", "e", "f", "g", "h", "i", "j", "k", "l", "m",
          "n", "o", "p", "q", "r", "s", "t", "u", "v", "w", "x", "y", "z",
          "A", "B", "C", "D", "E", "F", "G", "H", "I", "J", "K", "L", "M",
          "N", "O", "P", "Q", "R", "S", "T", "U", "V", "W", "X", "Y", "Z"}
\* what \s matches and str.strip() strips
Space == {" ", "\t", "\n", "\r", "\f"}
\* the class of the rich-markup pattern, line 21: [a-zA-Z0-9_\s#:;,.-]
RichClass == Alpha \cup Digit \cup Space \cup {"_", "#", ":", ";", ",", ".", "-"}

At(s, i) == IF i >= 1 /\ i <= Len(s) THEN s[i] ELSE ""
\* does p occur in s at place i
OccursAt(s, i, p) ==
    /\ i >= 1
    /\ i + Len(p) - 1 <= Len(s)
    /\ \A k \in 1..Len(p) : s[i + k - 1] = p[k]
Contains(s, p) == \E i \in 1..Len(s) : OccursAt(s, i, p)

RECURSIVE RunEnd(_, _, _)
\* the first place from i on whose character is not in class C (Len(s)+1 if none)
RunEnd(s, i, C) ==
    IF i <= Len(s) /\ s[i] \in C THEN RunEnd(s, i + 1, C) ELSE i

RECURSIVE RunEndNot(_, _, _)
\* the first place from i on whose character is c (Len(s)+1 if none)
RunEndNot(s, i, c) ==
    IF i <= Len(s) /\ s[i] # c THEN RunEndNot(s, i + 1, c) ELSE i

\* str.strip(), str.lstrip(), str.rstrip()
RECURSIVE LStrip(_)
LStrip(s) == IF s # <<>> /\ Head(s) \in Space THEN LStrip(Tail(s)) ELSE s
RECURSIVE RStrip(_)
RStrip(s) ==
    IF s # <<>> /\ s[Len(s)] \in Space THEN RStrip(SubSeq(s, 1, Len(s) - 1)) ELSE s
Strip(s) == LStrip(RStrip(s))

RECURSIVE RStripChar(_, _)
\* str.rstrip(c)
RStripChar(s, c) ==
    IF s # <<>> /\ s[Len(s)] = c THEN RStripChar(SubSeq(s, 1, Len(s) - 1), c) ELSE s

RECURSIVE SplitFrom(_, _, _, _)
\* str.split(c): the pieces of s between the occurrences of character c
SplitFrom(s, i, c, piece) ==
    IF i > Len(s) THEN <<piece>>
    ELSE IF s[i] = c THEN <<piece>> \o SplitFrom(s, i + 1, c, <<>>)
    ELSE SplitFrom(s, i + 1, c, Append(piece, s[i]))
Split(s, c) == SplitFrom(s, 1, c, <<>>)

RECURSIVE Join(_, _)
\* sep.join(pieces)
Join(pieces, sep) ==
    IF pieces = <<>> THEN <<>>
    ELSE IF Len(pieces) = 1 THEN pieces[1]
    ELSE pieces[1] \o sep \o Join(Tail(pieces), sep)

RECURSIVE ReplaceAll(_, _, _, _)
\* str.replace(old, new) from place i on (old is not empty)
ReplaceAll(s, i, old, new) ==
    IF i > Len(s) THEN <<>>
    ELSE IF OccursAt(s, i, old) THEN new \o ReplaceAll(s, i + Len(old), old, new)
    ELSE <<s[i]>> \o ReplaceAll(s, i + 1, old, new)

(***************************************************************************)
(* The cleanup_patterns (lines 19-39), numbered in the order of the list.  *)
(* MatchEnd(k, s, i) is the place after the match of pattern k that begins *)
(* at place i of s, 0 if pattern k does not match there.  No pattern       *)
(* matches the empty string, and in each of them the greedy choice is the  *)
(* only one that can match, so the first match at i is the match.          *)
(***************************************************************************)
VARIABLES fmtText, fmtFault, fmtOut, fmtRaised, fmtPc

fmtVars == <<fmtText, fmtFault, fmtOut, fmtRaised, fmtPc>>
NumPatterns == 12
Fence == <<TICK, TICK, TICK>>

MatchEnd(k, s, i) ==
    CASE k = 1 ->  \* \[/?[a-zA-Z0-9_\s#:;,.-]+\]
           IF s[i] = "["
           THEN LET j == IF At(s, i + 1) = "/" THEN i + 2 ELSE i + 1
                    e == RunEnd(s, j, RichClass)
                IN IF e > j /\ At(s, e) = "]" THEN e + 1 ELSE 0
           ELSE 0
      [] k = 2 ->  \* \*\*([^*]+)\*\*
           IF OccursAt(s, i, <<"*", "*">>)
           THEN LET e == RunEndNot(s, i + 2, "*")
                IN IF e > i + 2 /\ OccursAt(s, e, <<"*", "*">>) THEN e + 2 ELSE 0
           ELSE 0
      [] k = 3 ->  \* \*([^*]+)\*
           IF s[i] = "*"
           THEN LET e == RunEndNot(s, i + 1, "*")
                IN IF e > i + 1 /\ At(s, e) = "*" THEN e + 1 ELSE 0
           ELSE 0
      [] k = 4 ->  \* ^#+\s*  (re.MULTILINE: ^ is the start of a line)
           IF s[i] = "#" /\ (i = 1 \/ s[i - 1] = NL)
           THEN RunEnd(s, RunEnd(s, i, {"#"}), Space)
           ELSE 0
      [] k = 5 ->  \* TICK TICK TICK [a-zA-Z]*\n?
           IF OccursAt(s, i, Fence)
           THEN LET e == RunEnd(s, i + 3, Alpha)
                IN IF At(s, e) = NL THEN e + 1 ELSE e
           ELSE 0
      [] k = 6 ->  \* TICK TICK TICK
           IF OccursAt(s, i, Fence) THEN i + 3 ELSE 0
      [] k = 7 ->  \* TICK ([^TICK]+) TICK
           IF s[i] = TICK
           THEN LET e == RunEndNot(s, i + 1, TICK)
                IN IF e > i + 1 /\ At(s, e) = TICK THEN e + 1 ELSE 0
           ELSE 0
      [] k = 8 -> IF OccursAt(s, i, <<BS, "n">>) THEN i + 2 ELSE 0
      [] k = 9 -> IF OccursAt(s, i, <<BS, "t">>) THEN i + 2 ELSE 0
      [] k = 10 -> IF OccursAt(s, i, <<BS, "r">>) THEN i + 2 ELSE 0
      [] k = 11 -> IF OccursAt(s, i, <<BS, DQUOTE>>) THEN i + 2 ELSE 0
      [] k = 12 -> IF OccursAt(s, i, <<BS, SQUOTE>>) THEN i + 2 ELSE 0

\* what the match of pattern k from place i to before place e is replaced by
Replacement(k, s, i, e) ==
    CASE k = 2 -> SubSeq(s, i + 2, e - 3)
      [] k \in {3, 7} -> SubSeq(s, i + 1, e - 2)
      [] k = 8 -> <<NL>>
      [] k = 9 -> <<" ", " ", " ", " ">>
      [] k = 10 -> <<"\r">>
      [] k = 11 -> <<DQUOTE>>
      [] k = 12 -> <<SQUOTE>>
      [] OTHER -> <<>>

RECURSIVE ReSub(_, _, _)
RECURSIVE ApplyPatternsAbort(_, _, _)
\* re.sub(pattern k, replacement k, s) from place i on: the matches are
\* found from left to right and do not overlap
ReSub(k, s, i) ==
    IF i > Len(s) THEN <<>>
    ELSE LET e == MatchEnd(k, s, i)
         IN IF e > 0 THEN Replacement(k, s, i, e) \o ReSub(k, s, e)
            ELSE <<s[i]>> \o ReSub(k, s, i + 1)

\* a loop that ends at the first pattern that raises
ApplyPatternsAbort(s, k, broken) ==
    IF k > NumPatterns \/ k \in broken THEN s
    ELSE ApplyPatternsAbort(ReSub(k, s, 1), k + 1, broken)

RECURSIVE ApplyPatterns(_, _, _)
\* the loop of _basic_cleanup (lines 87-92) from pattern k on; a pattern of
\* the set broken raises re.error and is skipped
ApplyPatterns(s, k, broken) ==
    IF k > NumPatterns THEN s
    ELSE ApplyPatterns(IF k \in broken THEN s ELSE ReSub(k, s, 1), k + 1, broken)

\* OutputFormatter._basic_cleanup
BasicCleanup(text, broken) ==
    ApplyPatterns(ReplaceAll(text, 1, <<BS, BS>>, <<BS>>), 1, broken)

\* the section_indicators (lines 42-45): does one of them occur in the line
HasIndicator(line) == \E i \in 1..Len(line) : line[i] = KW

Count(s, c) == Cardinality({i \in 1..Len(s) : s[i] = c})
StartsWith(s, p) == OccursAt(s, 1, p)
EndsWith(s, c) == s # <<>> /\ s[Len(s)] = c
Last(seq) == seq[Len(seq)]

\* the non-empty stripped cells of a table line (line 110)
Cells(line) ==
    LET parts == Split(line, "|")
        stripped == [k \in 1..Len(parts) |-> Strip(parts[k])]
    IN SelectSeq(stripped, LAMBDA p : p # <<>>)

\* one iteration of the loop of _process_structured_content (lines 101-125)
StructuredStep(processed, raw) ==
    LET line == Strip(raw)
    IN IF line = <<>> THEN Append(processed, <<>>)
       ELSE IF Count(line, "|") >= 2
       THEN IF Cells(line) # <<>>
            THEN Append(processed, <<" ", " ">> \o Join(Cells(line), <<" ", "|", " ">>))
            ELSE processed
       ELSE IF HasIndicator(line)
       THEN LET before == IF processed # <<>> /\ Last(processed) # <<>>
                          THEN Append(processed, <<>>) ELSE processed
                title == IF EndsWith(line, ":") THEN line
                         ELSE RStripChar(line, FULLCOLON) \o <<":">>
            IN Append(before, title)
       ELSE Append(processed, line)

RECURSIVE StructuredLoop(_, _, _)
StructuredLoop(lines, i, processed) ==
    IF i > Len(lines) THEN processed
    ELSE StructuredLoop(lines, i + 1, StructuredStep(processed, lines[i]))

\* OutputFormatter._process_structured_content
ProcessStructuredContent(text) ==
    Join(StructuredLoop(Split(text, NL), 1, <<>>), <<NL>>)

\* OutputFormatter._format_line
FormatLine(line0) ==
    LET \* ^[BULLET\-\*\+]\s*  ->  BULLET and a space
        line1 == IF At(line0, 1) \in {BULLET, "-", "*", "+"}
                 THEN <<BULLET, " ">> \o SubSeq(line0, RunEnd(line0, 2, Space), Len(line0))
                 ELSE line0
        \* ^(\d+)[\.\)]\s*  ->  "\1. "
        d == RunEnd(line1, 1, Digit)
        line2 == IF d > 1 /\ At(line1, d) \in {".", ")"}
                 THEN SubSeq(line1, 1, d - 1) \o <<".", " ">>
                      \o SubSeq(line1, RunEnd(line1, d + 1, Space), Len(line1))
                 ELSE line1
        \* ^[>\|]+\s*  ->  ""
        q == RunEnd(line2, 1, {">", "|"})
        line3 == IF q > 1 THEN SubSeq(line2, RunEnd(line2, q, Space), Len(line2))
                 ELSE line2
        \* key: value (lines 175-181)
        c == RunEndNot(line3, 1, ":")
        key == Strip(SubSeq(line3, 1, c - 1))
        value == Strip(SubSeq(line3, c + 1, Len(line3)))
    IN IF c <= Len(line3) /\ ~EndsWith(line3, ":") /\ value # <<>>
       THEN key \o <<":", " ">> \o value
       ELSE line3

\* is_list_item (line 151): startswith(BULLET and a space) or ^\d+\.\s
IsListItem(line) ==
    \/ StartsWith(line, <<BULLET, " ">>)
    \/ LET d == RunEnd(line, 1, Digit)
       IN d > 1 /\ At(line, d) = "." /\ At(line, d + 1) \in Space

\* one iteration of the loop of _process_lines (lines 136-159)
LinesStep(st, raw) ==
    LET line == Strip(raw)
        formatted == FormatLine(line)
        item == IsListItem(formatted)
        spaced == IF item /\ ~st.inList /\ st.out # <<>> /\ Last(st.out) # <<>>
                  THEN Append(st.out, <<>>) ELSE st.out
    IN IF line = <<>>
       THEN [out |-> IF ~st.prevEmpty /\ st.out # <<>> THEN Append(st.out, <<>>) ELSE st.out,
             prevEmpty |-> TRUE, inList |-> FALSE]
       ELSE [out |-> Append(spaced, formatted), prevEmpty |-> FALSE, inList |-> item]

RECURSIVE LinesLoop(_, _, _)
LinesLoop(lines, i, st) ==
    IF i > Len(lines) THEN st
    ELSE LinesLoop(lines, i + 1, LinesStep(st, lines[i]))

\* OutputFormatter._process_lines
ProcessLines(text) ==
    Join(LinesLoop(Split(text, NL), 1,
                   [out |-> <<>>, prevEmpty |-> FALSE, inList |-> FALSE]).out, <<NL>>)

RECURSIVE CollapseNewlines(_)
\* the loop of lines 188-189
CollapseNewlines(text) ==
    IF Contains(text, <<NL, NL, NL>>)
    THEN CollapseNewlines(ReplaceAll(text, 1, <<NL, NL, NL>>, <<NL, NL>>))
    ELSE text

RECURSIVE SpacingLoop(_, _)
\* the loop of _ensure_paragraph_spacing (lines 207-218)
SpacingLoop(lines, i) ==
    IF i > Len(lines) THEN <<>>
    ELSE LET line == lines[i]
             gap == /\ i < Len(lines)
                    /\ line # <<>>
                    /\ lines[i + 1] # <<>>
                    /\ line[1] # BULLET
                    /\ lines[i + 1][1] # BULLET
                    /\ (EndsWith(line, ":") \/ HasIndicator(line))
         IN (IF gap THEN <<line, <<>>>> ELSE <<line>>) \o SpacingLoop(lines, i + 1)

\* OutputFormatter._ensure_paragraph_spacing
EnsureParagraphSpacing(text) == Join(SpacingLoop(Split(text, NL), 1), <<NL>>)

(***************************************************************************)
(* The four patterns of _fix_common_issues (lines 225-233), in order.      *)
(***************************************************************************)
Units == <<<<"M", "B">>, <<"G", "B">>, <<"K", "B">>, <<"m", "s">>, <<"s">>>>
\* the first unit of MB|GB|KB|ms|s at place i of s, 0 if none
UnitAt(s, i) ==
    IF \E u \in 1..Len(Units) : OccursAt(s, i, Units[u])
    THEN CHOOSE u \in 1..Len(Units) :
            /\ OccursAt(s, i, Units[u])
            /\ \A v \in 1..(u - 1) : ~OccursAt(s, i, Units[v])
    ELSE 0

AllDigits(s, i, n) == i + n - 1 <= Len(s) /\ \A k \in i..(i + n - 1) : s[k] \in Digit

FixMatchEnd(k, s, i) ==
    CASE k = 1 ->  \* (\d+)\s*%
           IF s[i] \in Digit
           THEN LET e == RunEnd(s, RunEnd(s, i, Digit), Space)
                IN IF At(s, e) = "%" THEN e + 1 ELSE 0
           ELSE 0
      [] k = 2 ->  \* (\d+)\s*(MB|GB|KB|ms|s)
           IF s[i] \in Digit
           THEN LET e == RunEnd(s, RunEnd(s, i, Digit), Space)
                IN IF UnitAt(s, e) > 0 THEN e + Len(Units[UnitAt(s, e)]) ELSE 0
           ELSE 0
      [] k = 3 ->  \* (\d{4})-(\d{2})-(\d{2})\s+(\d{2}):(\d{2}):(\d{2})
           IF /\ AllDigits(s, i, 4) /\ At(s, i + 4) = "-"
              /\ AllDigits(s, i + 5, 2) /\ At(s, i + 7) = "-"
              /\ AllDigits(s, i + 8, 2)
           THEN LET e == RunEnd(s, i + 10, Space)
                IN IF /\ e > i + 10
                      /\ AllDigits(s, e, 2) /\ At(s, e + 2) = ":"
                      /\ AllDigits(s, e + 3, 2) /\ At(s, e + 5) = ":"
                      /\ AllDigits(s, e + 6, 2)
                   THEN e + 8 ELSE 0
           ELSE 0
      [] k = 4 ->  \* :([^\s])
           IF s[i] = ":" /\ i < Len(s) /\ s[i + 1] \notin Space THEN i + 2 ELSE 0

FixReplacement(k, s, i, e) ==
    CASE k = 1 -> SubSeq(s, i, RunEnd(s, i, Digit) - 1) \o <<"%">>
      [] k = 2 -> LET u == RunEnd(s, RunEnd(s, i, Digit), Space)
                  IN SubSeq(s, i, RunEnd(s, i, Digit) - 1) \o SubSeq(s, u, e - 1)
      [] k = 3 -> SubSeq(s, i, i + 9) \o <<" ">> \o SubSeq(s, e - 8, e - 1)
      [] k = 4 -> <<":", " ", s[i + 1]>>

RECURSIVE FixSub(_, _, _)
FixSub(k, s, i) ==
    IF i > Len(s) THEN <<>>
    ELSE LET e == FixMatchEnd(k, s, i)
         IN IF e > 0 THEN FixReplacement(k, s, i, e) \o FixSub(k, s, e)
            ELSE <<s[i]>> \o FixSub(k, s, i + 1)

\* OutputFormatter._fix_common_issues
FixCommonIssues(text) == FixSub(4, FixSub(3, FixSub(2, FixSub(1, text, 1), 1), 1), 1)

\* a final pass that does not trim the text
FinalCleanupNoStrip(text) ==
    FixCommonIssues(EnsureParagraphSpacing(CollapseNewlines(text)))

\* OutputFormatter._final_cleanup
FinalCleanup(text) ==
    FixCommonIssues(EnsureParagraphSpacing(Strip(CollapseNewlines(text))))

\* the exception classes a stage can raise: re.error is a subclass of
\* Exception (the handlers of lines 90 and 75)
IsInstance(kind, class) == kind = class \/ (kind = "re.error" /\ class = "Exception")

\* the fault of one call of format_result: nothing raises (NoFault), the body
\* of a stage raises (pattern 0), or the re.sub call of one pattern of
\* _basic_cleanup raises (lines 88-89)
NoFault == [stage |-> "none", pattern |-> 0, kind |-> "none"]
Stages == {"basic", "structured", "lines", "final"}
Faults ==
    {NoFault} \cup [stage : Stages, pattern : {0}, kind : {"Exception"}]
              \cup [stage : {"basic"}, pattern : 1..NumPatterns,
                    kind : {"re.error", "Exception"}]

\* the patterns the handler of line 90 skips under fault f
Skipped(f) ==
    IF f.pattern # 0 /\ IsInstance(f.kind, "re.error") THEN {f.pattern} ELSE {}

\* the fault leaves the stage it is raised in
Propagates(f) == f.stage \in Stages /\ Skipped(f) = {}

\* OutputFormatter.format_result: the result, given the fault of this call.
\* An exception that leaves a stage leaves the try block for line 75.
FormatResult(text, f) ==
    IF Strip(text) = <<>> THEN <<NORESULT>>
    ELSE IF Propagates(f) /\ IsInstance(f.kind, "Exception")
         THEN <<NOTICE, NL>> \o text
    ELSE LET cleaned == FinalCleanup(ProcessLines(ProcessStructuredContent(
                            BasicCleanup(text, Skipped(f)))))
         IN IF Strip(cleaned) # <<>> THEN cleaned ELSE <<EMPTYRESULT>>

\* whether the call of format_result ends with an exception instead of a
\* result: one that leaves a stage and that line 75 does not catch
FormatRaises(text, f) ==
    /\ Strip(text) # <<>>
    /\ Propagates(f)
    /\ ~IsInstance(f.kind, "Exception")

(***************************************************************************)
(* One call of OutputFormatter.format_result, as display_result makes it   *)
(* (cli_interface.py line 136).  The texts are built from tokens that the  *)
(* passes of the formatter react to.                                       *)
(***************************************************************************)
MaxTokens == 3
MaxFaultTokens == 2

Tokens ==
    { <<"a">>, <<" ">>, <<NL>>, <<NL, NL, NL>>, <<"*">>, <<"#">>, <<"[">>,
      <<"]">>, <<TICK>>, Fence, <<":">>, <<"1">>, <<"%">>, <<BS>>, <<"n">>,
      <<"-">>, <<">">>, <<KW>>, <<"|">>, <<".">> }

RECURSIVE Texts(_)
\* the texts of at most n tokens
Texts(n) ==
    IF n = 0 THEN {<<>>}
    ELSE LET shorter == Texts(n - 1)
         IN shorter \cup {t \o k : t \in shorter, k \in Tokens}

FmtIdle ==
    /\ fmtPc = "idle"
    /\ fmtText = <<>>
    /\ fmtFault = NoFault
    /\ fmtOut = <<>>
    /\ fmtRaised = FALSE

\* a call with a text, in which nothing raises
FmtInit ==
    /\ fmtPc = "call"
    /\ fmtText \in Texts(MaxTokens)
    /\ fmtFault = NoFault
    /\ fmtOut = <<>>
    /\ fmtRaised = FALSE

\* a call with a text, in which at most one stage or pattern raises
FmtFaultInit ==
    /\ fmtPc = "call"
    /\ fmtText \in Texts(MaxFaultTokens)
    /\ fmtFault \in Faults
    /\ fmtOut = <<>>
    /\ fmtRaised = FALSE

\* OutputFormatter.format_result(text)
Format ==
    /\ fmtPc = "call"
    /\ fmtPc' = "done"
    /\ fmtRaised' = FormatRaises(fmtText, fmtFault)
    /\ fmtOut' = IF fmtRaised' THEN <<>> ELSE FormatResult(fmtText, fmtFault)
    /\ UNCHANGED <<fmtText, fmtFault>>

FmtNext == Format

(***************************************************************************)
(* Part 4: one query round trip: CLIInterface.handle_user_input            *)
(* (src/project/cli_interface.py) and LogAnalyzerAgent.analyze_query       *)
(* (src/project/log_analyzer_agent.py).                                    *)
(*                                                                         *)
(* A query is a sequence of symbols: a blank, a word, one of the keywords  *)
(* of line 176 (QKW) or a command word of the CLI.  The text of an         *)
(* exception is a sequence of words.  The fixed messages of the code are   *)
(* symbols.  What the agent does with a query is an input of the call.     *)
(***************************************************************************)
VARIABLES qInput, qReady, qAgent, qVia, qAgentCalls, qAnalyzed, qResult,
          qPrinted, qContinue, qRaised, qPc

qVars == <<qInput, qReady, qAgent, qVia, qAgentCalls, qAnalyzed, qResult,
           qPrinted, qContinue, qRaised, qPc>>

\* symbols of a query, words of an exception text
MaxQuerySyms == 2
MaxErrWords == 2

\* line 217: the least length of a result
MinResultLen == 10

QKW == "QKW"
PREFIX == "PREFIX"
PROMPT == "PROMPT"
HELP == "HELP"
BLANKMSG == "BLANKMSG"
SHORTMSG == "SHORTMSG"
TIMEOUTBODY == "TIMEOUTBODY"
CONNECTIONBODY == "CONNECTIONBODY"
PERMISSIONBODY == "PERMISSIONBODY"
GENERICHEAD == "GENERICHEAD"
GENERICTAIL == "GENERICTAIL"

QuerySyms == {" ", "a", QKW, "exit", "EXIT", "help"}
ErrWords == {"timeout", "Timeout", "connection", "permission", "auth", "Author", "disk"}

\* str.lower() of a symbol
LowerSym(w) ==
    CASE w = "EXIT" -> "exit"
      [] w = "Timeout" -> "timeout"
      [] w = "Author" -> "author"
      [] OTHER -> w

Lower(s) == [k \in 1..Len(s) |-> LowerSym(s[k])]

\* keyword in word, both in lower case
WordHolds(word, keyword) ==
    word = keyword \/ (word = "author" /\ keyword = "auth")

\* keyword in s, for a text s in lower case
Holds(s, keyword) == \E k \in 1..Len(s) : WordHolds(s[k], keyword)

RECURSIVE StripQuery(_)
\* str.strip() of a query
StripQuery(s) ==
    IF s = <<>> THEN s
    ELSE IF Head(s) = " " THEN StripQuery(Tail(s))
    ELSE IF s[Len(s)] = " " THEN StripQuery(SubSeq(s, 1, Len(s) - 1))
    ELSE s

\* LogAnalyzerAgent._preprocess_query
PreprocessQuery(query) ==
    LET q == StripQuery(query)
    IN IF Holds(Lower(q), QKW) THEN q ELSE <<PREFIX>> \o q

\* the bodies an agent response can hold
Xs(n) == [k \in 1..n |-> "x"]
Bodies ==
    {<<>>, <<" ">>, Xs(MinResultLen - 1), Xs(MinResultLen),
     <<" ">> \o Xs(MinResultLen - 1) \o <<" ">>}

\* a response: the first attribute it has among message, content and text
\* (str: none of them), and the text that attribute holds
Responses == [attr : {"message", "content", "text", "str"}, value : Bodies]

\* what the agent does when called: it returns a response, or raises an
\* exception with some text
AgentOutcomes ==
    [kind : {"returns"}, response : Responses, error : {<<>>}]
    \cup [kind : {"raises"}, response : {[attr |-> "str", value |-> <<>>]},
          error : SeqsUpTo(ErrWords, MaxErrWords)]

\* LogAnalyzerAgent._extract_response_text
ExtractResponseText(response) == response.value

\* LogAnalyzerAgent._postprocess_result
PostprocessResult(result) ==
    IF StripQuery(result) = <<>> THEN <<BLANKMSG>>
    ELSE IF Len(StripQuery(result)) < MinResultLen THEN <<SHORTMSG>>
    ELSE StripQuery(result)

\* (a variant that tests for connection before timeout)
FormatErrorResponseSwapped(error_msg) ==
    LET low == Lower(error_msg)
    IN IF Holds(low, "connection") THEN <<CONNECTIONBODY>>
       ELSE IF Holds(low, "timeout") THEN <<TIMEOUTBODY>>
       ELSE IF Holds(low, "permission") \/ Holds(low, "auth") THEN <<PERMISSIONBODY>>
       ELSE <<GENERICHEAD>> \o error_msg \o <<GENERICTAIL>>

\* LogAnalyzerAgent._format_error_response
FormatErrorResponse(error_msg) ==
    LET low == Lower(error_msg)
    IN IF Holds(low, "timeout") THEN <<TIMEOUTBODY>>
       ELSE IF Holds(low, "connection") THEN <<CONNECTIONBODY>>
       ELSE IF Holds(low, "permission") \/ Holds(low, "auth") THEN <<PERMISSIONBODY>>
       ELSE <<GENERICHEAD>> \o error_msg \o <<GENERICTAIL>>

\* LogAnalyzerAgent.analyze_query(query): whether it raises, what it returns
\* and the queries it called the agent with
AnalyzeQuery(query, ready, agent) ==
    IF ~ready
    THEN [raised |-> TRUE, result |-> <<>>, agentCalls |-> <<>>]
    ELSE LET processed == PreprocessQuery(query)
         IN [raised |-> FALSE,
             agentCalls |-> <<processed>>,
             result |-> IF agent.kind = "raises"
                        THEN FormatErrorResponse(agent.error)
                        ELSE PostprocessResult(ExtractResponseText(agent.response))]

NotAnalyzed == [raised |-> FALSE, result |-> <<>>, agentCalls |-> <<>>]

\* (a variant without the test of line 100)
HandleUserInputNoEmptyTest(input_text, ready, agent) ==
    LET stripped == StripQuery(input_text)
        low == Lower(stripped)
        a == AnalyzeQuery(stripped, ready, agent)
    IN IF low = <<"exit">>
       THEN [continue |-> FALSE, printed |-> <<>>, analyzed |-> <<>>, a |-> NotAnalyzed]
       ELSE IF low = <<"help">>
       THEN [continue |-> TRUE, printed |-> <<HELP>>, analyzed |-> <<>>, a |-> NotAnalyzed]
       ELSE [continue |-> TRUE,
             printed |-> IF a.raised THEN <<"error">> ELSE <<"result">> \o a.result,
             analyzed |-> <<stripped>>, a |-> a]

\* CLIInterface.handle_user_input(input_text, agent): whether the loop goes
\* on, what is printed, the queries analyze_query was called with and what
\* that call did
HandleUserInput(input_text, ready, agent) ==
    LET stripped == StripQuery(input_text)
        low == Lower(stripped)
        a == AnalyzeQuery(stripped, ready, agent)
    IN IF low = <<"exit">>
       THEN [continue |-> FALSE, printed |-> <<>>, analyzed |-> <<>>, a |-> NotAnalyzed]
       ELSE IF low = <<"help">>
       THEN [continue |-> TRUE, printed |-> <<HELP>>, analyzed |-> <<>>, a |-> NotAnalyzed]
       ELSE IF stripped = <<>>
       THEN [continue |-> TRUE, printed |-> <<PROMPT>>, analyzed |-> <<>>, a |-> NotAnalyzed]
       ELSE [continue |-> TRUE,
             \* an exception of analyze_query is caught at line 120
             printed |-> IF a.raised THEN <<"error">> ELSE <<"result">> \o a.result,
             analyzed |-> <<stripped>>, a |-> a]

NoAgent == [kind |-> "returns", response |-> [attr |-> "str", value |-> <<>>], error |-> <<>>]

QIdle ==
    /\ qPc = "idle"
    /\ qInput = <<>>
    /\ qReady = FALSE
    /\ qAgent = NoAgent
    /\ qVia = "none"
    /\ qAgentCalls = <<>>
    /\ qAnalyzed = <<>>
    /\ qResult = <<>>
    /\ qPrinted = <<>>
    /\ qContinue = TRUE
    /\ qRaised = FALSE

\* a text is about to be handled; what the agent would do with it is fixed
QInit ==
    /\ qPc = "call"
    /\ qInput \in SeqsUpTo(QuerySyms, MaxQuerySyms)
    /\ qReady \in BOOLEAN
    /\ qAgent \in AgentOutcomes
    /\ qVia = "none"
    /\ qAgentCalls = <<>>
    /\ qAnalyzed = <<>>
    /\ qResult = <<>>
    /\ qPrinted = <<>>
    /\ qContinue = TRUE
    /\ qRaised = FALSE

\* the interactive loop hands a line of input to handle_user_input
CliHandle ==
    /\ qPc = "call"
    /\ qPc' = "done"
    /\ qVia' = "cli"
    /\ LET h == HandleUserInput(qInput, qReady, qAgent)
       IN /\ qContinue' = h.continue
          /\ qPrinted' = h.printed
          /\ qAnalyzed' = h.analyzed
          /\ qAgentCalls' = h.a.agentCalls
          /\ qResult' = h.a.result
          /\ qRaised' = FALSE
    /\ UNCHANGED <<qInput, qReady, qAgent>>

\* a caller hands a query to analyze_query
ApiAnalyze ==
    /\ qPc = "call"
    /\ qPc' = "done"
    /\ qVia' = "api"
    /\ LET a == AnalyzeQuery(qInput, qReady, qAgent)
       IN /\ qAgentCalls' = a.agentCalls
          /\ qResult' = a.result
          /\ qRaised' = a.raised
    /\ qAnalyzed' = <<qInput>>
    /\ UNCHANGED <<qInput, qReady, qAgent, qPrinted, qContinue>>

QNext == CliHandle \/ ApiAnalyze

(***************************************************************************)
(* Part 5: validate_log_timestamps (src/project/time_tools.py).            *)
(*                                                                         *)
(* Time is counted in ticks of half a day from some origin.  The argument  *)
(* is a sequence of symbols: a comma, a blank, a character that belongs to *)
(* no timestamp, or a whole well-formed timestamp text "YYYY-MM-DD         *)
(* HH:MM:SS" standing for one instant.                                     *)
(***************************************************************************)
VARIABLES tsInput, tsNow, tsResult, tsPc

tsVars == <<tsInput, tsNow, tsResult, tsPc>>

\* symbols of the argument
MaxStampSyms == 5

\* ticks of one day: timedelta.days counts whole days
TicksPerDay == 2
\* the span in days above which line 87 reports large_time_span
SpanLimit == 365

\* the instants timestamps and the clock are drawn from: the two ends of a
\* span of 365 days and a half, and those of a span of 366 days
Instants == {0, 1, 365 * TicksPerDay + 1, 366 * TicksPerDay}

Comma == [kind |-> "comma", at |-> 0]
Blank == [kind |-> "blank", at |-> 0]
Junk == [kind |-> "junk", at |-> 0]
Stamp(t) == [kind |-> "stamp", at |-> t]

StampSyms == {Comma, Blank, Junk} \cup {Stamp(t) : t \in Instants}

RECURSIVE SplitOn(_, _, _, _)
\* str.split(sep) from place i on, piece being the piece begun
SplitOn(s, i, sep, piece) ==
    IF i > Len(s) THEN <<piece>>
    ELSE IF s[i] = sep THEN <<piece>> \o SplitOn(s, i + 1, sep, <<>>)
    ELSE SplitOn(s, i + 1, sep, Append(piece, s[i]))

RECURSIVE StripBlanks(_)
\* str.strip() of a piece
StripBlanks(p) ==
    IF p = <<>> THEN p
    ELSE IF Head(p) = Blank THEN StripBlanks(Tail(p))
    ELSE IF p[Len(p)] = Blank THEN StripBlanks(SubSeq(p, 1, Len(p) - 1))
    ELSE p

\* line 28: the stripped entries of the argument
Entries(s) ==
    LET pieces == SplitOn(s, 1, Comma, <<>>)
    IN [k \in 1..Len(pieces) |-> StripBlanks(pieces[k])]

\* datetime.strptime(ts, "%Y-%m-%d %H:%M:%S") returns (TRUE) or raises
\* ValueError: the entry has to be one timestamp text and nothing else
Parses(ts) == Len(ts) = 1 /\ ts[1].kind = "stamp"

\* timedelta.days of a span that is not negative
Days(ticks) == ticks \div TicksPerDay

\* (a variant that counts an entry at the very instant of the clock as future)
ClassifyStepNotStrict(res, ts, now) ==
    IF Parses(ts)
    THEN LET dt == ts[1].at
             seen == [res EXCEPT !.valid = Append(@, dt)]
         IN IF dt >= now
            THEN [seen EXCEPT !.future =
                     Append(@, [timestamp |-> ts, days_in_future |-> Days(dt - now)])]
            ELSE [seen EXCEPT !.past = Append(@, ts)]
    ELSE [res EXCEPT !.invalid = Append(@, ts)]

\* one iteration of the loop of lines 42-59
ClassifyStep(res, ts, now) ==
    IF Parses(ts)
    THEN LET dt == ts[1].at
             seen == [res EXCEPT !.valid = Append(@, dt)]
         IN IF dt > now
            THEN [seen EXCEPT !.future =
                     Append(@, [timestamp |-> ts, days_in_future |-> Days(dt - now)])]
            ELSE [seen EXCEPT !.past = Append(@, ts)]
    ELSE [res EXCEPT !.invalid = Append(@, ts)]

RECURSIVE ClassifyLoop(_, _, _, _)
ClassifyLoop(entries, i, res, now) ==
    IF i > Len(entries) THEN res
    ELSE ClassifyLoop(entries, i + 1, ClassifyStep(res, entries[i], now), now)

\* min and max of the parsed instants (lines 63-64)
MinOf(ds) == CHOOSE d \in {ds[k] : k \in 1..Len(ds)} : \A k \in 1..Len(ds) : d <= ds[k]
MaxOf(ds) == CHOOSE d \in {ds[k] : k \in 1..Len(ds)} : \A k \in 1..Len(ds) : d >= ds[k]

\* lines 62-92: the time range and the anomaly list
Anomalies(res) ==
    (IF res.future # <<>> THEN <<"future_timestamps">> ELSE <<>>)
    \o (IF res.invalid # <<>> THEN <<"invalid_format">> ELSE <<>>)
    \o (IF res.valid # <<>> /\ Days(MaxOf(res.valid) - MinOf(res.valid)) > SpanLimit
        THEN <<"large_time_span">> ELSE <<>>)

\* validate_log_timestamps(log_timestamps) at clock now
ValidateLogTimestamps(s, now) ==
    LET entries == Entries(s)
        res == ClassifyLoop(entries, 1,
                   [future |-> <<>>, past |-> <<>>, invalid |-> <<>>, valid |-> <<>>], now)
    IN [total_timestamps |-> Len(entries),
        future_timestamps |-> res.future,
        past_timestamps |-> res.past,
        invalid_timestamps |-> res.invalid,
        span_days |-> IF res.valid # <<>>
                      THEN Days(MaxOf(res.valid) - MinOf(res.valid)) ELSE 0,
        has_range |-> res.valid # <<>>,
        anomalies |-> Anomalies(res)]

NoResult == [total_timestamps |-> 0, future_timestamps |-> <<>>,
             past_timestamps |-> <<>>, invalid_timestamps |-> <<>>,
             span_days |-> 0, has_range |-> FALSE, anomalies |-> <<>>]

TsIdle ==
    /\ tsPc = "idle"
    /\ tsInput = <<>>
    /\ tsNow = 0
    /\ tsResult = NoResult

\* the agent calls the tool with some argument at some instant of the clock
TsInit ==
    /\ tsPc = "call"
    /\ tsInput \in SeqsUpTo(StampSyms, MaxStampSyms)
    /\ tsNow \in Instants
    /\ tsResult = NoResult

\* validate_log_timestamps(log_timestamps)
Validate ==
    /\ tsPc = "call"
    /\ tsPc' = "done"
    /\ tsResult' = ValidateLogTimestamps(tsInput, tsNow)
    /\ UNCHANGED <<tsInput, tsNow>>

TsNext == Validate

vars == <<mcpVars, mainVars, fmtVars, qVars, tsVars>>

Init == McpInit /\ MainInit /\ FmtIdle /\ QIdle /\ TsIdle

\* one MCPManager driven by any sequence of calls
Spec == Init /\ [][McpNext /\ UNCHANGED <<mainVars, fmtVars, qVars, tsVars>>]_vars

\* one run of main
SpecMain == Init /\ [][MainNext /\ UNCHANGED <<fmtVars, qVars, tsVars>>]_vars

\* a call of format_result by a program that has just started
InitFmt == McpInit /\ MainInit /\ FmtInit /\ QIdle /\ TsIdle

InitFmtFault == McpInit /\ MainInit /\ FmtFaultInit /\ QIdle /\ TsIdle

\* one call of format_result in which nothing raises
SpecFmt ==
    InitFmt /\ [][FmtNext /\ UNCHANGED <<mcpVars, mainVars, qVars, tsVars>>]_vars

\* one call of format_result in which at most one stage or pattern raises
SpecFmtFault ==
    InitFmtFault /\ [][FmtNext /\ UNCHANGED <<mcpVars, mainVars, qVars, tsVars>>]_vars

InitQuery == McpInit /\ MainInit /\ FmtIdle /\ QInit /\ TsIdle

\* one text handled by the CLI or by analyze_query
SpecQuery ==
    InitQuery /\ [][QNext /\ UNCHANGED <<mcpVars, mainVars, fmtVars, tsVars>>]_vars

InitTs == McpInit /\ MainInit /\ FmtIdle /\ QIdle /\ TsInit

\* one call of validate_log_timestamps
SpecTs ==
    InitTs /\ [][TsNext /\ UNCHANGED <<mcpVars, mainVars, fmtVars, qVars>>]_vars

(***************************************************************************)
(* Claims about MCPManager.                                                *)
(***************************************************************************)

\* the clients a sequence of library calls was made on, per operation
CallsOn(op) == SelectSeq(calls, LAMBDA k : k.op = op)
ConnsOf(cs) == [i \in 1..Len(cs) |-> cs[i].conn]

\* what client c contributed according to the calls of the last handler: the
\* tools its list_tools_sync returned, nothing if that call was not reached
\* or raised
Contribution(cs, c) ==
    IF \E k \in 1..Len(cs) : cs[k].op = "list" /\ cs[k].conn = c /\ cs[k].ok
    THEN LET k == CHOOSE k \in 1..Len(cs) : cs[k].op = "list" /\ cs[k].conn = c /\ cs[k].ok
         IN ToolsOf(c, cs[k].n)
    ELSE <<>>

RECURSIVE Aggregate(_, _, _)
\* the concatenation, in the order of known, of the contributions
Aggregate(known, i, cs) ==
    IF i > Len(known) THEN <<>>
    ELSE Contribution(cs, known[i]) \o Aggregate(known, i + 1, cs)

\* C1: the active set is a subset of the known set in every reachable state
\* (the claim as stated; initialize_clients replaces the known list and leaves
\* the active list as it is)
C1_ActiveSubsetOfKnown == Range(active) \subseteq Range(clients)

\* C2: initialize_clients never aborts; it returns, and stores as the known
\* list, one fresh client per entry whose construction succeeded, in the order
\* of the input list, and nothing for a failing entry; an empty list gives an
\* empty list
C2_InitReturnsSurvivorsInOrder ==
    lastOp = "initialize_clients" =>
        LET oks == SelectSeq(args.configs, LAMBDA cf : cf.ok)
        IN /\ ~raised
           /\ ret = clients
           /\ NoDup(ret)
           /\ Len(ret) = Len(oks)
           /\ args.madeOf = [k \in 1..Len(oks) |-> oks[k].name]
           /\ (args.configs = <<>> => ret = <<>>)

C2_Witness ==
    /\ lastOp = "initialize_clients"
    /\ Len(args.configs) = 3
    /\ ~args.configs[2].ok
    /\ Len(ret) = 2

\* C3: a get_all_tools call right after a get_all_tools call opens no client
\* that is already active, and the cache after it is the aggregate of that
\* call alone
C3_SecondCallNoReopenFreshCache ==
    [][(lastOp = "get_all_tools" /\ lastOp' = "get_all_tools") =>
          /\ \A k \in 1..Len(calls') :
                calls'[k].op = "open" => ~InSeq(calls'[k].conn, active)
          /\ tools' = Aggregate(clients, 1, calls')
          /\ ret' = tools']_mcpVars

C3_Witness ==
    /\ lastOp = "get_all_tools"
    /\ Len(tools) > 0
    /\ \E k \in 1..Len(calls) :
          /\ calls[k].op = "list" /\ calls[k].ok /\ calls[k].n > 0
          /\ \A j \in 1..Len(calls) : calls[j].conn = calls[k].conn => calls[j].op # "open"

\* C4: get_all_tools returns and caches the concatenation, in the order of the
\* known list, of the tool lists of the clients whose open and list steps both
\* succeeded; a client whose open or list raised contributes nothing and every
\* known client is still attempted; no known client, an empty list
C4_ToolsAreConcatenationOfSuccesses ==
    lastOp = "get_all_tools" =>
        /\ ~raised
        /\ ret = tools
        /\ tools = Aggregate(clients, 1, calls)
        /\ \A i \in 1..Len(clients) : \E k \in 1..Len(calls) : calls[k].conn = clients[i]
        /\ \A j, k \in 1..Len(calls) :
              (j < k /\ calls[j].conn # calls[k].conn) =>
                 \E a, b \in 1..Len(clients) :
                    a < b /\ clients[a] = calls[j].conn /\ clients[b] = calls[k].conn
        /\ (clients = <<>> => ret = <<>>)

C4_Witness ==
    /\ lastOp = "get_all_tools"
    /\ Len(clients) = 2
    /\ \E k \in 1..Len(calls) : calls[k].conn = clients[1] /\ ~calls[k].ok
    /\ tools = ToolsOf(clients[2], 1)

\* C5: cleanup attempts the release of every active client, in the order of
\* the active list (the order of activation); a release that raises stops
\* neither the later ones nor cleanup
C5_CleanupReleasesAllInOrder ==
    [][lastOp' = "cleanup" =>
          /\ ~raised'
          /\ \A k \in 1..Len(calls') : calls'[k].op = "close"
          /\ ConnsOf(calls') = active]_mcpVars

C5_Witness ==
    /\ lastOp = "cleanup"
    /\ Len(calls) = 2
    /\ ~calls[1].ok
    /\ calls[2].op = "close"
    /\ ~raised

\* C6: cleanup, in any state, raises nothing and leaves the active list, the
\* known list and the tool cache empty, as __init__ does; a cleanup right after
\* a cleanup releases nothing
C6_CleanupIdempotent ==
    [][lastOp' = "cleanup" =>
          /\ ~raised'
          /\ active' = <<>> /\ clients' = <<>> /\ tools' = <<>>
          /\ (lastOp = "cleanup" => calls' = <<>>)]_mcpVars

C6_Witness ==
    /\ lastOp = "cleanup"
    /\ \E k \in 1..Len(calls) : ~calls[k].ok
    /\ \E k \in 1..Len(calls) : calls[k].state # "open"
    /\ active = <<>> /\ clients = <<>> /\ tools = <<>>

(***************************************************************************)
(* Claims about main.                                                      *)
(***************************************************************************)

\* C7: main exits with 1 on every start-up failure (config missing or invalid,
\* no client, no tool, agent construction raising) and never reaches the
\* interactive loop then; it exits with 0 when the loop ends normally or a
\* SIGINT/SIGTERM interrupts the process
C7_ExitCodes ==
    /\ (failure \in StartupFailures => ~reachedLoop)
    /\ (pc = "done" =>
          /\ exitCode \in {0, 1}
          /\ (failure \in StartupFailures /\ ~signalled => exitCode = 1)
          /\ (signalled => exitCode = 0)
          /\ (reachedLoop /\ failure = "none" => exitCode = 0))

C7_Witness ==
    /\ pc = "done"
    /\ failure = "no_tools"
    /\ ~signalled
    /\ clients = <<>>
    /\ exitCode = 1

(***************************************************************************)
(* Claims about OutputFormatter.                                           *)
(***************************************************************************)
Triple == <<NL, NL, NL>>

\* the result of the call is one of the two fixed sentences
Sentinel == fmtOut \in {<<NORESULT>>, <<EMPTYRESULT>>}

\* C8: for every input text, the text returned by format_result holds no
\* run of three or more newlines and neither begins nor ends with whitespace.
C8_NoTripleNewlineNoEdgeSpace ==
    fmtPc = "done" =>
        /\ ~Contains(fmtOut, Triple)
        /\ fmtOut # <<>>
        /\ Head(fmtOut) \notin Space
        /\ Last(fmtOut) \notin Space

\* a text with three newlines in a row between two paragraphs has been
\* formatted into two paragraphs
C8_Witness ==
    /\ fmtPc = "done"
    /\ Contains(fmtText, Triple)
    /\ Contains(fmtOut, <<NL, NL>>)

\* a line of the result begins at place i
LineStart(s, i) == i = 1 \/ s[i - 1] = NL

\* a bracketed rich-markup tag (the first of the cleanup_patterns) at place i
TagAt(s, i) == MatchEnd(1, s, i) > 0

\* C9: for every input text, the text returned by format_result holds no
\* Markdown bold or italic delimiter (an asterisk), no heading marker at the
\* start of a line, no code fence and no bracketed rich-markup tag; and it is
\* the fixed "no result" sentence or is not empty after trimming.
C9_NoResidualMarkup ==
    fmtPc = "done" =>
        /\ \A i \in 1..Len(fmtOut) :
              /\ fmtOut[i] # "*"
              /\ ~(fmtOut[i] = "#" /\ LineStart(fmtOut, i))
              /\ ~OccursAt(fmtOut, i, Fence)
              /\ ~TagAt(fmtOut, i)
        /\ (fmtOut = <<NORESULT>> \/ Strip(fmtOut) # <<>>)

\* the stages of format_result in their order (lines 62-71)
StageOrder == <<"basic", "structured", "lines", "final">>

\* one stage applied to a text
RunStage(stage, t) ==
    CASE stage = "basic" -> BasicCleanup(t, {})
      [] stage = "structured" -> ProcessStructuredContent(t)
      [] stage = "lines" -> ProcessLines(t)
      [] stage = "final" -> FinalCleanup(t)

RECURSIVE RunStagesBut(_, _, _)
\* the stages from the k-th on applied in their order, but for one stage
RunStagesBut(skip, k, t) ==
    IF k > Len(StageOrder) THEN t
    ELSE RunStagesBut(skip, k + 1,
                      IF StageOrder[k] = skip THEN t ELSE RunStage(StageOrder[k], t))

\* a text, or the fixed sentence for a blank one (line 73)
OrEmptyResult(t) == IF Strip(t) # <<>> THEN t ELSE <<EMPTYRESULT>>

RECURSIVE SubBut(_, _, _)
\* the patterns from the k-th on substituted in their order, but for one
SubBut(skip, k, t) ==
    IF k > NumPatterns THEN t
    ELSE SubBut(skip, k + 1, IF k = skip THEN t ELSE ReSub(k, t, 1))

\* the three later stages applied to a text after the substitutions
AfterPatterns(t) ==
    OrEmptyResult(FinalCleanup(ProcessLines(ProcessStructuredContent(t))))

C15_ListOnlyOnOpen ==
    \A k \in 1..Len(calls) : calls[k].op = "list" => calls[k].state = "open"

\* the open calls of a handler that returned, each followed by a close call
\* on the same connection
ProbesReleased(cs) ==
    \A k \in 1..Len(cs) :
        (cs[k].op = "open" /\ cs[k].ok) =>
            \E j \in (k + 1)..Len(cs) : cs[j].op = "close" /\ cs[j].conn = cs[k].conn

\* C16: health_check leaves the known list, the active list and the tool cache
\* as they are, attempts the release of every open it performed, and leaves a
\* connection that was active and open before the call open after it
C16_HealthCheckFrame ==
    [][lastOp' = "health_check" =>
          /\ clients' = clients /\ active' = active /\ tools' = tools
          /\ ProbesReleased(calls')
          /\ \A c \in Range(active) : live[c] = "open" => live'[c] = "open"]_mcpVars

\* C17: every connection on which get_all_tools attempted the open operation
\* is in the active list when get_all_tools returns, whether the open raised,
\* the listing raised or both succeeded
C17_AttemptedOpenIsActive ==
    lastOp = "get_all_tools" =>
        \A k \in 1..Len(calls) : calls[k].op = "open" => InSeq(calls[k].conn, active)

\* no connection is in the open state
NoneOpen == \A c \in Conns : live[c] # "open"

\* every close call of the last handler returned
ClosesOk == \A k \in 1..Len(calls) : calls[k].op = "close" => calls[k].ok

C18_CleanupOnEveryExit ==
    /\ [](pc = "done" /\ created => cleanedUp)
    /\ [][cleanedUp' /\ ~cleanedUp => rc' = rc /\ ~raised' /\ pc' = "returning"]_vars

(***************************************************************************)
(* Further claims about OutputFormatter.                                   *)
(***************************************************************************)
\* the characters of escape sequences, of the markup that the patterns of
\* _basic_cleanup strip, and of the list, quote and table marks that
\* _format_line and _process_structured_content rewrite
MarkupChars == {"*", "#", TICK, "[", "]", BS, "-", "+", ">", "|", BULLET}

MarkupFree(t) == \A i \in 1..Len(t) : t[i] \notin MarkupChars

\* C11: format_result is idempotent on its own output: for every input x
\* that is free of markup, format_result(format_result(x)) is format_result(x)
C11_IdempotentOnCleanInput ==
    (fmtPc = "done" /\ MarkupFree(fmtText)) => FormatResult(fmtOut, NoFault) = fmtOut

\* the patterns of _basic_cleanup with escape resolution before markup stripping
EscapesFirst == <<8, 9, 10, 11, 12, 1, 2, 3, 4, 5, 6, 7>>

RECURSIVE SubInOrder(_, _, _)
\* the patterns substituted in the order given, from its k-th entry on
SubInOrder(order, k, t) ==
    IF k > Len(order) THEN t
    ELSE SubInOrder(order, k + 1, ReSub(order[k], t, 1))

\* C19: the passes run in one fixed order in which escape normalization (the
\* doubled-backslash collapse, then the escaped newline, tab, carriage return
\* and quotes) is complete before any markup-stripping pass runs, so markup
\* that is at the start of a line only after an escaped newline is resolved
\* is still stripped
C19_EscapesBeforeMarkup ==
    (fmtPc = "done" /\ Strip(fmtText) # <<>>) =>
        fmtOut = AfterPatterns(
                     SubInOrder(EscapesFirst, 1,
                                ReplaceAll(fmtText, 1, <<BS, BS>>, <<BS>>)))

(***************************************************************************)
(* Claims about the query round trip.                                      *)
(***************************************************************************)
\* the text is empty or holds blanks only
BlankQuery(s) == \A k \in 1..Len(s) : s[k] = " "

\* C12 as stated: analyze_query rejects an empty or whitespace-only query by
\* returning a prompt-to-retry message, without calling the agent and without
\* raising
C12_AnalyzeQueryRejectsBlank ==
    (qPc = "done" /\ qVia = "api" /\ qReady /\ BlankQuery(qInput)) =>
        /\ ~qRaised
        /\ qAgentCalls = <<>>
        /\ qResult = <<PROMPT>>

\* C12 amended: it is handle_user_input that rejects an empty or
\* whitespace-only input: it prints the prompt-to-retry message, calls neither
\* analyze_query nor the agent, raises nothing and lets the loop go on;
\* analyze_query itself, given such a query, calls the agent with the bare
\* instructional prefix
C12_CliRejectsBlank ==
    (qPc = "done" /\ BlankQuery(qInput)) =>
        /\ (qVia = "cli" =>
              /\ qPrinted = <<PROMPT>>
              /\ qAnalyzed = <<>>
              /\ qAgentCalls = <<>>
              /\ qContinue
              /\ ~qRaised)
        /\ (qVia = "api" /\ qReady => qAgentCalls = <<<<PREFIX>>>>)

\* a line of two blanks was handed to handle_user_input of a CLI whose agent
\* would have raised
C12_Witness ==
    /\ qPc = "done"
    /\ qVia = "cli"
    /\ qInput = <<" ", " ">>
    /\ qReady
    /\ qAgent.kind = "raises"
    /\ qPrinted = <<PROMPT>>

\* the text of the exception holds the keyword, whatever the case of the letters
Mentions(keyword) ==
    \E k \in 1..Len(qAgent.error) :
        WordHolds(LowerSym(qAgent.error[k]), keyword)

\* C13: when the agent call raises, analyze_query raises nothing and returns
\* exactly one of four bodies, chosen by case-insensitive substring match on
\* the text of the exception, tried in the order timeout, connection,
\* permission or auth, else the generic body holding the text verbatim
C13_ErrorBodiesInOrder ==
    (qPc = "done" /\ qAgentCalls # <<>> /\ qAgent.kind = "raises") =>
        /\ ~qRaised
        /\ (Mentions("timeout") => qResult = <<TIMEOUTBODY>>)
        /\ (~Mentions("timeout") /\ Mentions("connection") => qResult = <<CONNECTIONBODY>>)
        /\ (~Mentions("timeout") /\ ~Mentions("connection")
              /\ (Mentions("permission") \/ Mentions("auth"))
              => qResult = <<PERMISSIONBODY>>)
        /\ (~Mentions("timeout") /\ ~Mentions("connection")
              /\ ~Mentions("permission") /\ ~Mentions("auth")
              => qResult = <<GENERICHEAD>> \o qAgent.error \o <<GENERICTAIL>>)

\* the agent raised with a text that holds connection and, in another case of
\* letters, timeout: the timeout body was returned
C13_Witness ==
    /\ qPc = "done"
    /\ qVia = "api"
    /\ qAgent.kind = "raises"
    /\ qAgent.error = <<"connection", "Timeout">>
    /\ qResult = <<TIMEOUTBODY>>

(***************************************************************************)
(* Claims about validate_log_timestamps.                                   *)
(***************************************************************************)
\* the entries of the argument: one more than its commas
CommaCount == Len(SelectSeq(tsInput, LAMBDA c : c = Comma))

IsFuture(ts) == Parses(ts) /\ ts[1].at > tsNow
IsPast(ts) == Parses(ts) /\ ts[1].at <= tsNow
IsInvalid(ts) == ~Parses(ts)

\* the anomaly list holds an entry of the type
Reports(type) == \E k \in 1..Len(tsResult.anomalies) : tsResult.anomalies[k] = type

\* C14: validate_log_timestamps puts every comma-separated entry into exactly
\* one of future, past and invalid, so that total_timestamps is the sum of the
\* three lengths: future iff it parses and is strictly later than the clock,
\* invalid iff it does not parse, past otherwise; the anomaly list holds
\* future_timestamps iff an entry is future, invalid_format iff one is
\* invalid, large_time_span iff the span from the earliest to the latest
\* parsed entry is more than 365 whole days
C14_TimestampClassification ==
    tsPc = "done" =>
        LET entries == Entries(tsInput)
            parsed == SelectSeq(entries, Parses)
        IN /\ tsResult.total_timestamps = CommaCount + 1
           /\ tsResult.total_timestamps =
                 Len(tsResult.future_timestamps) + Len(tsResult.past_timestamps)
                 + Len(tsResult.invalid_timestamps)
           /\ [k \in 1..Len(tsResult.future_timestamps) |->
                 tsResult.future_timestamps[k].timestamp] = SelectSeq(entries, IsFuture)
           /\ tsResult.past_timestamps = SelectSeq(entries, IsPast)
           /\ tsResult.invalid_timestamps = SelectSeq(entries, IsInvalid)
           /\ (Reports("future_timestamps") <=> \E k \in 1..Len(entries) : IsFuture(entries[k]))
           /\ (Reports("invalid_format") <=> \E k \in 1..Len(entries) : IsInvalid(entries[k]))
           /\ (Reports("large_time_span") <=>
                 \E i, j \in 1..Len(parsed) :
                    (parsed[j][1].at - parsed[i][1].at) \div TicksPerDay > SpanLimit)

\* one entry at the very instant of the clock, one that does not parse and one
\* more than 365 days later: one past, one invalid, one future, three anomalies
C14_Witness ==
    /\ tsPc = "done"
    /\ tsResult.total_timestamps = 3
    /\ Len(tsResult.past_timestamps) = 1
    /\ tsResult.past_timestamps[1][1].at = tsNow
    /\ Len(tsResult.invalid_timestamps) = 1
    /\ Len(tsResult.future_timestamps) = 1
    /\ tsResult.future_timestamps[1].days_in_future > 0
    /\ Len(tsResult.anomalies) = 3

=============================================================================
